---- MODULE Spec2Model ----
(***************************************************************************)
(* Model of the Cosmos-wallet auth worker: the nonce store adapter         *)
(* (getNonce / setNonce over the NONCES KV namespace), the auth middleware *)
(* (authMiddleware, validateBodyAndIncrementNonceOrThrowResponse,          *)
(* verifySignature), the protected route and the nonce query route.        *)
(*                                                                         *)
(* Every request is handled by its own asynchronous invocation.  The code  *)
(* between two awaits runs without interruption, so each action below is   *)
(* one such stretch: it ends at the await that touches the KV store, the   *)
(* signature check, or the route handler.                                  *)
(***************************************************************************)
EXTENDS Integers, Sequences, FiniteSets

(***************************************************************************)
(* Bounds of the model.                                                    *)
(***************************************************************************)
\* requests handled in one run of the full specification
MaxReq == 2
\* requests handled in one run of the signed-requests specification
MaxSignedReq == 4
\* largest nonce a client puts into data.auth.nonce
MaxNonce == 1
\* longest string found under a key of the KV namespace in SpecStored
MaxStoredLen == 3
\* requests handled in one run of the specification with nonce queries
MaxQueryReq == 2
\* requests handled in one run of the specification with fairness
MaxLiveReq == 2
\* handleRegister calls handled in one run of the JWT/password variant
MaxReg == 2

(***************************************************************************)
(* Strings are sequences of one-character strings.                         *)
(***************************************************************************)
DecDigits == <<"0", "1", "2", "3", "4", "5", "6", "7", "8", "9">>

HexDigits == DecDigits \o <<"a", "b", "c", "d", "e", "f">>

\* the characters of the strings SpecStored puts into the store
StoredChars == {"0", "1", "7", "-", "+", " ", "x", "a"}

RECURSIVE StringsOfLen(_)
StringsOfLen(n) ==
    IF n = 0 THEN {<<>>}
    ELSE {Append(s, c) : s \in StringsOfLen(n - 1), c \in StoredChars}

StoredStrings == UNION {StringsOfLen(n) : n \in 0..MaxStoredLen}

\* the digits a radix accepts
DigitsOf(radix) == IF radix = 16 THEN HexDigits ELSE DecDigits

IsDigit(c, radix) == \E i \in 1..Len(DigitsOf(radix)) : DigitsOf(radix)[i] = c

DigitValue(c, radix) ==
    (CHOOSE i \in 1..Len(DigitsOf(radix)) : DigitsOf(radix)[i] = c) - 1

Drop(s, n) == SubSeq(s, n + 1, Len(s))

\* Number.prototype.toString for an integer
RECURSIVE NatToString(_)
NatToString(n) ==
    IF n < 10 THEN <<DecDigits[n + 1]>>
    ELSE Append(NatToString(n \div 10), DecDigits[(n % 10) + 1])

ToString(n) == IF n < 0 THEN <<"-">> \o NatToString(0 - n) ELSE NatToString(n)

(***************************************************************************)
(* parseInt(string) without a radix: skip leading white space, take an     *)
(* optional sign, take radix 16 after a 0x prefix, read the longest run of *)
(* digits, NaN when that run is empty.                                     *)
(***************************************************************************)
NaN == [nan |-> TRUE, val |-> 0]

Num(n) == [nan |-> FALSE, val |-> n]

RECURSIVE TrimLeft(_)
TrimLeft(s) == IF s # <<>> /\ s[1] = " " THEN TrimLeft(Tail(s)) ELSE s

RECURSIVE DigitPrefix(_, _)
DigitPrefix(s, radix) ==
    IF s # <<>> /\ IsDigit(s[1], radix)
    THEN <<s[1]>> \o DigitPrefix(Tail(s), radix)
    ELSE <<>>

RECURSIVE DigitsValue(_, _)
DigitsValue(ds, radix) ==
    IF ds = <<>> THEN 0
    ELSE DigitsValue(SubSeq(ds, 1, Len(ds) - 1), radix) * radix
         + DigitValue(ds[Len(ds)], radix)

ParseInt(s) ==
    LET t      == TrimLeft(s)
        signed == t # <<>> /\ t[1] \in {"-", "+"}
        sign   == IF t # <<>> /\ t[1] = "-" THEN 0 - 1 ELSE 1
        u      == IF signed THEN Tail(t) ELSE t
        hex    == Len(u) >= 2 /\ u[1] = "0" /\ u[2] \in {"x", "X"}
        radix  == IF hex THEN 16 ELSE 10
        v      == IF hex THEN Drop(u, 2) ELSE u
        ds     == DigitPrefix(v, radix)
    IN  IF ds = <<>> THEN NaN ELSE Num(sign * DigitsValue(ds, radix))

IsNaN(x) == x.nan

(***************************************************************************)
(* The nonce store adapter.  The KV namespace is a function from the keys  *)
(* that have a value to that value, a string; NONCES.get of any other key  *)
(* yields null.                                                            *)
(***************************************************************************)
Keys == {"k1", "k2"}

\* getNonce converting with Number(nonce): anything but digits is NaN
GetNonceStrict(kv, publicKey) ==
    IF publicKey \notin DOMAIN kv \/ kv[publicKey] = <<>> THEN 0
    ELSE IF DigitPrefix(kv[publicKey], 10) # kv[publicKey] THEN 0
    ELSE DigitsValue(kv[publicKey], 10)

\* getNonce: null and "" are falsy, NaN becomes 0
GetNonce(kv, publicKey) ==
    IF publicKey \notin DOMAIN kv \/ kv[publicKey] = <<>> THEN 0
    ELSE LET nonceValue == ParseInt(kv[publicKey])
         IN  IF IsNaN(nonceValue) THEN 0 ELSE nonceValue.val

\* setNonce that stores every key's nonce under one and the same key
SetNonceSharedKey(kv, publicKey, nonce) ==
    [k \in DOMAIN kv \cup {"k1"} |->
        IF k = "k1" THEN ToString(nonce) ELSE kv[k]]

\* setNonce: NONCES.put(publicKey, nonce.toString())
SetNonce(kv, publicKey, nonce) ==
    [k \in DOMAIN kv \cup {publicKey} |->
        IF k = publicKey THEN ToString(nonce) ELSE kv[k]]

(***************************************************************************)
(* Request bodies.  A body either fails to parse as JSON or is an object   *)
(* with some of the required fields present.  Of data only the parts the   *)
(* middleware looks at are kept: auth.publicKey and auth.nonce.            *)
(***************************************************************************)
Fields ==
    {"signature", "type", "nonce", "chainId", "chainFeeDenom",
     "chainBech32Prefix", "publicKey"}

Nonces == 0..MaxNonce

\* serializeSignDoc(makeSignDoc(...)): the message is a function of data
SignDoc(body) == [publicKey |-> body.publicKey, nonce |-> body.nonce]

\* the signature the holder of signer's private key makes over message
Sign(signer, message) == [signer |-> signer, message |-> message]

\* verifySecp256k1Signature: true exactly for the signature made with the
\* private key of publicKey over this very message
VerifySecp256k1Signature(publicKey, message, signature) ==
    signature = Sign(publicKey, message)

\* secp256k1PublicKeyToBech32Address throws for what is no public key
DerivationThrows(publicKey) == publicKey \notin Keys

\* verifySignature: whatever is thrown inside is caught and gives false
VerifySignature(body) ==
    IF DerivationThrows(body.publicKey) THEN FALSE
    ELSE VerifySecp256k1Signature(body.publicKey, SignDoc(body),
                                  body.signature)

Data(k, n) == [publicKey |-> k, nonce |-> n]

\* well-formed bodies signed by the key holder over their own data
SignedBodies ==
    {[parses |-> TRUE, present |-> Fields, publicKey |-> k, nonce |-> n,
      signature |-> Sign(k, Data(k, n))] : k \in Keys, n \in Nonces}

\* a captured signature sent along with data whose nonce was changed
TamperedBodies ==
    {[parses |-> TRUE, present |-> Fields, publicKey |-> k, nonce |-> n,
      signature |-> Sign(k, Data(k, m))] :
        k \in Keys, n \in Nonces, m \in Nonces} \ SignedBodies

\* a signature over the right data made with somebody else's private key
ForgedBodies ==
    {[parses |-> TRUE, present |-> Fields, publicKey |-> k, nonce |-> n,
      signature |-> Sign("mallory", Data(k, n))] : k \in Keys, n \in Nonces}

\* a signed body with one required field removed
MalformedBodies ==
    {[parses |-> TRUE, present |-> Fields \ {f}, publicKey |-> "k1",
      nonce |-> 0, signature |-> Sign("k1", Data("k1", 0))] : f \in Fields}

\* a well-formed body whose publicKey is no secp256k1 public key
BadKeyBodies ==
    {[parses |-> TRUE, present |-> Fields, publicKey |-> "zz", nonce |-> 0,
      signature |-> Sign("zz", Data("zz", 0))]}

\* a body request.json() rejects
UnparsableBody ==
    [parses |-> FALSE, present |-> {}, publicKey |-> "", nonce |-> 0,
     signature |-> Sign("", Data("", 0))]

Bodies ==
    SignedBodies \cup TamperedBodies \cup ForgedBodies \cup MalformedBodies
        \cup BadKeyBodies \cup {UnparsableBody}

\* objectMatchesStructure(parsedBody, {data: {auth: {...}}, signature: {}})
ObjectMatchesStructure(body) == Fields \subseteq body.present

\* respondError(status, error)
RespondError(status, error) == [status |-> status, error |-> error]

\* fetch's catch: respondError(500, `Internal server error. ${err.message}`)
InternalError(message) == [status |-> 500, error |-> message]

\* respond(200, {pong: true})
Pong == [status |-> 200, error |-> ""]

NoResponse == [status |-> 0, error |-> ""]

(***************************************************************************)
(* State.                                                                  *)
(***************************************************************************)
VARIABLES
    NONCES,        \* the KV namespace
    pc,            \* where each protected request stands
    body,          \* the body each protected request carries
    nonce,         \* the local nonce of validateBody...: what getNonce gave
    parsedBody,    \* request.parsedBody: {} while unset, else {the body}
    response,      \* the response fetch returned for the request
    reads,         \* NONCES.get calls that returned, per request
    writes,        \* NONCES.put calls that returned, per request
    verified,      \* verifySignature returned true for the request
    handlerRan,    \* the protected route handler started for the request
    replayOf,      \* the answered, authorized requests this one repeats
    nonceResp,     \* the response to the latest nonce query, with its key
    AUTH,          \* the KV namespace of the JWT/password variant
    regPc,         \* where each handleRegister call stands
    regBody,       \* the body each handleRegister call was sent
    regResponse,   \* what fetch answered for each handleRegister call
    stores         \* AUTH.put calls of setAccount that returned, per call

vars ==
    <<NONCES, pc, body, nonce, parsedBody, response, reads, writes,
      verified, handlerRan, replayOf, nonceResp,
      AUTH, regPc, regBody, regResponse, stores>>

\* the state of the JWT/password variant
jwt == <<AUTH, regPc, regBody, regResponse, stores>>

\* the state of the nonce/signature variant
gate ==
    <<NONCES, pc, body, nonce, parsedBody, response, reads, writes,
      verified, handlerRan, replayOf, nonceResp>>

Requests == DOMAIN pc

\* the empty KV namespace
EmptyStore == [k \in {} |-> <<>>]

\* a body of POST /register that request.json() rejects
UnparsableRegisterBody ==
    [parses |-> FALSE, present |-> {}, username |-> "", password |-> ""]

\* no response yet; token is {} while there is none, else {the token}
NoRegisterResponse == [status |-> 0, error |-> "", token |-> {}]

InitRegisters(n) ==
    /\ AUTH = EmptyStore
    /\ regPc = [g \in 1..n |-> "idle"]
    /\ regBody = [g \in 1..n |-> UnparsableRegisterBody]
    /\ regResponse = [g \in 1..n |-> NoRegisterResponse]
    /\ stores = [g \in 1..n |-> 0]

InitRequests(n) ==
    /\ pc = [r \in 1..n |-> "idle"]
    /\ body = [r \in 1..n |-> UnparsableBody]
    /\ nonce = [r \in 1..n |-> 0]
    /\ parsedBody = [r \in 1..n |-> {}]
    /\ response = [r \in 1..n |-> NoResponse]
    /\ reads = [r \in 1..n |-> 0]
    /\ writes = [r \in 1..n |-> 0]
    /\ verified = [r \in 1..n |-> FALSE]
    /\ handlerRan = [r \in 1..n |-> FALSE]
    /\ replayOf = [r \in 1..n |-> {}]
    /\ nonceResp = NoResponse

Init ==
    /\ NONCES = EmptyStore
    /\ InitRequests(MaxReq)
    /\ InitRegisters(0)

\* the request ends with this response
Finish(r, resp) ==
    /\ pc' = [pc EXCEPT ![r] = "done"]
    /\ response' = [response EXCEPT ![r] = resp]

\* the requests with body b that were authorized and have been answered
Accepted(b) ==
    {q \in Requests : pc[q] = "done" /\ body[q] = b /\ parsedBody[q] # {}}

(***************************************************************************)
(* A POST /ping arrives: fetch hands it to the router, which calls         *)
(* authMiddleware.  Requests are numbered in the order they arrive.        *)
(***************************************************************************)
Arrive(r, b) ==
    /\ pc[r] = "idle"
    /\ \A q \in Requests : q < r => pc[q] # "idle"
    /\ pc' = [pc EXCEPT ![r] = "received"]
    /\ body' = [body EXCEPT ![r] = b]
    /\ replayOf' = [replayOf EXCEPT ![r] = Accepted(b)]
    /\ UNCHANGED <<verified, NONCES, nonce, parsedBody, response, reads, writes,
                   handlerRan, nonceResp, jwt>>

Receive(r) == \E b \in Bodies : Arrive(r, b)

ReceiveSigned(r) ==
    \E b \in {s \in SignedBodies : s.publicKey = "k1"} : Arrive(r, b)

\* a correctly signed body of either key
ReceiveKeySigned(r) == \E b \in SignedBodies : Arrive(r, b)

\* AuthParse with request.parsedBody set as soon as the body is parsed
AuthParseSetsBody(r) ==
    /\ pc[r] = "received"
    /\ IF ~body[r].parses
       THEN Finish(r, InternalError("SyntaxError")) /\ UNCHANGED parsedBody
       ELSE /\ parsedBody' = [parsedBody EXCEPT ![r] = {body[r]}]
            /\ IF ~ObjectMatchesStructure(body[r])
               THEN Finish(r, RespondError(400, "Invalid body"))
               ELSE pc' = [pc EXCEPT ![r] = "validated"] /\ UNCHANGED response
    /\ UNCHANGED <<verified, NONCES, body, nonce, reads, writes, handlerRan,
                   replayOf, nonceResp, jwt>>

\* AuthParse without the structure check
AuthParseNoCheck(r) ==
    /\ pc[r] = "received"
    /\ IF ~body[r].parses
       THEN Finish(r, InternalError("SyntaxError"))
       ELSE pc' = [pc EXCEPT ![r] = "validated"] /\ UNCHANGED response
    /\ UNCHANGED <<verified, NONCES, body, nonce, parsedBody, reads, writes,
                   handlerRan, replayOf, nonceResp, jwt>>

(***************************************************************************)
(* authMiddleware up to the call of validateBody...: request.json() and    *)
(* the structure check.  A body that does not parse makes json() throw;    *)
(* the catch rethrows what is no Response and fetch answers 500.           *)
(***************************************************************************)
AuthParse(r) ==
    /\ pc[r] = "received"
    /\ IF ~body[r].parses
       THEN Finish(r, InternalError("SyntaxError"))
       ELSE IF ~ObjectMatchesStructure(body[r])
       THEN Finish(r, RespondError(400, "Invalid body"))
       ELSE pc' = [pc EXCEPT ![r] = "validated"] /\ UNCHANGED response
    /\ UNCHANGED <<verified, NONCES, body, nonce, parsedBody, reads, writes,
                   handlerRan, replayOf, nonceResp, jwt>>

\* ValidateNonce that goes on to setNonce without calling verifySignature
ValidateNonceSkipsSignature(r) ==
    /\ pc[r] = "validated"
    /\ LET n == GetNonce(NONCES, body[r].publicKey)
       IN  /\ nonce' = [nonce EXCEPT ![r] = n]
           /\ reads' = [reads EXCEPT ![r] = @ + 1]
           /\ IF n # body[r].nonce
              THEN Finish(r, RespondError(401, "Unauthorized. Invalid nonce."))
              ELSE pc' = [pc EXCEPT ![r] = "sigVerified"]
                   /\ UNCHANGED response
    /\ UNCHANGED <<verified, NONCES, body, parsedBody, writes, handlerRan,
                   replayOf, nonceResp, jwt>>

\* ValidateNonce that turns away only nonces below the stored one
ValidateNonceAcceptsHigher(r) ==
    /\ pc[r] = "validated"
    /\ LET n == GetNonce(NONCES, body[r].publicKey)
       IN  /\ nonce' = [nonce EXCEPT ![r] = n]
           /\ reads' = [reads EXCEPT ![r] = @ + 1]
           /\ IF body[r].nonce < n
              THEN Finish(r, RespondError(401, "Unauthorized. Invalid nonce."))
              ELSE pc' = [pc EXCEPT ![r] = "nonceChecked"]
                   /\ UNCHANGED response
    /\ UNCHANGED <<verified, NONCES, body, parsedBody, writes, handlerRan,
                   replayOf, nonceResp, jwt>>

\* ValidateNonce that, on a first mismatch, reads the nonce once more
ValidateNonceRetriesOnce(r) ==
    /\ pc[r] = "validated"
    /\ LET n == GetNonce(NONCES, body[r].publicKey)
       IN  /\ nonce' = [nonce EXCEPT ![r] = n]
           /\ reads' = [reads EXCEPT ![r] = @ + 1]
           /\ IF n # body[r].nonce /\ reads[r] = 0
              THEN UNCHANGED <<pc, response>>
              ELSE IF n # body[r].nonce
              THEN Finish(r, RespondError(401, "Unauthorized. Invalid nonce."))
              ELSE pc' = [pc EXCEPT ![r] = "nonceChecked"]
                   /\ UNCHANGED response
    /\ UNCHANGED <<verified, NONCES, body, parsedBody, writes, handlerRan,
                   replayOf, nonceResp, jwt>>

(***************************************************************************)
(* validateBody...: getNonce returns and the nonce is compared.            *)
(***************************************************************************)
ValidateNonce(r) ==
    /\ pc[r] = "validated"
    /\ LET n == GetNonce(NONCES, body[r].publicKey)
       IN  /\ nonce' = [nonce EXCEPT ![r] = n]
           /\ reads' = [reads EXCEPT ![r] = @ + 1]
           /\ IF n # body[r].nonce
              THEN Finish(r, RespondError(401, "Unauthorized. Invalid nonce."))
              ELSE pc' = [pc EXCEPT ![r] = "nonceChecked"]
                   /\ UNCHANGED response
    /\ UNCHANGED <<verified, NONCES, body, parsedBody, writes, handlerRan,
                   replayOf, nonceResp, jwt>>

\* NONCES.get throws: rethrown by authMiddleware, answered 500 by fetch
GetNonceFails(r) ==
    /\ pc[r] = "validated"
    /\ Finish(r, InternalError("KV GET failed"))
    /\ UNCHANGED <<verified, NONCES, body, nonce, parsedBody, reads, writes,
                   handlerRan, replayOf, nonceResp, jwt>>

\* ValidateSignature with the increment done before the signature is checked
ValidateSignatureIncrementsFirst(r) ==
    /\ pc[r] = "nonceChecked"
    /\ NONCES' = SetNonce(NONCES, body[r].publicKey, nonce[r] + 1)
    /\ writes' = [writes EXCEPT ![r] = @ + 1]
    /\ IF ~VerifySignature(body[r])
       THEN /\ Finish(r, RespondError(401, "Unauthorized. Invalid signature."))
            /\ UNCHANGED <<verified, parsedBody>>
       ELSE /\ pc' = [pc EXCEPT ![r] = "authorized"]
            /\ verified' = [verified EXCEPT ![r] = TRUE]
            /\ parsedBody' = [parsedBody EXCEPT ![r] = {body[r]}]
            /\ UNCHANGED response
    /\ UNCHANGED <<body, nonce, reads, handlerRan, replayOf, nonceResp, jwt>>

\* ValidateSignature with a verifySignature that catches nothing: what
\* the address derivation throws reaches fetch
ValidateSignatureNoCatch(r) ==
    /\ pc[r] = "nonceChecked"
    /\ IF DerivationThrows(body[r].publicKey)
       THEN /\ Finish(r, InternalError("Invalid public key"))
            /\ UNCHANGED verified
       ELSE IF ~VerifySecp256k1Signature(body[r].publicKey, SignDoc(body[r]),
                                         body[r].signature)
       THEN /\ Finish(r, RespondError(401, "Unauthorized. Invalid signature."))
            /\ UNCHANGED verified
       ELSE /\ pc' = [pc EXCEPT ![r] = "sigVerified"]
            /\ verified' = [verified EXCEPT ![r] = TRUE]
            /\ UNCHANGED response
    /\ UNCHANGED <<NONCES, body, nonce, parsedBody, reads, writes,
                   handlerRan, replayOf, nonceResp, jwt>>

(***************************************************************************)
(* validateBody...: verifySignature returns.                               *)
(***************************************************************************)
ValidateSignature(r) ==
    /\ pc[r] = "nonceChecked"
    /\ IF ~VerifySignature(body[r])
       THEN /\ Finish(r, RespondError(401, "Unauthorized. Invalid signature."))
            /\ UNCHANGED verified
       ELSE /\ pc' = [pc EXCEPT ![r] = "sigVerified"]
            /\ verified' = [verified EXCEPT ![r] = TRUE]
            /\ UNCHANGED response
    /\ UNCHANGED <<NONCES, body, nonce, parsedBody, reads, writes,
                   handlerRan, replayOf, nonceResp, jwt>>

(***************************************************************************)
(* validateBody...: setNonce(env, publicKey, nonce + 1) returns; the       *)
(* middleware sets request.parsedBody and returns nothing, so the router   *)
(* goes on to the route handler.                                           *)
(***************************************************************************)
IncrementNonce(r) ==
    /\ pc[r] = "sigVerified"
    /\ NONCES' = SetNonce(NONCES, body[r].publicKey, nonce[r] + 1)
    /\ writes' = [writes EXCEPT ![r] = @ + 1]
    /\ parsedBody' = [parsedBody EXCEPT ![r] = {body[r]}]
    /\ pc' = [pc EXCEPT ![r] = "authorized"]
    /\ UNCHANGED <<verified, body, nonce, response, reads, handlerRan, replayOf,
                   nonceResp, jwt>>

\* SetNonceFails with a catch that drops what is no Response: the
\* middleware returns nothing and the router goes on
SetNonceFailsSwallowed(r) ==
    /\ pc[r] = "sigVerified"
    /\ pc' = [pc EXCEPT ![r] = "authorized"]
    /\ UNCHANGED <<verified, NONCES, body, nonce, parsedBody, response, reads,
                   writes, handlerRan, replayOf, nonceResp, jwt>>

\* NONCES.put throws: rethrown by authMiddleware, answered 500 by fetch
SetNonceFails(r) ==
    /\ pc[r] = "sigVerified"
    /\ Finish(r, InternalError("KV PUT failed"))
    /\ UNCHANGED <<verified, NONCES, body, nonce, parsedBody, reads, writes,
                   handlerRan, replayOf, nonceResp, jwt>>

(***************************************************************************)
(* The protected route.  handlePing answers 200; a route put in its place  *)
(* may throw, which fetch answers with 500.                                *)
(***************************************************************************)
HandlePing(r) ==
    /\ pc[r] = "authorized"
    /\ handlerRan' = [handlerRan EXCEPT ![r] = TRUE]
    /\ Finish(r, Pong)
    /\ UNCHANGED <<verified, NONCES, body, nonce, parsedBody, reads, writes,
                   replayOf, nonceResp, jwt>>

RouteFails(r) ==
    /\ pc[r] = "authorized"
    /\ handlerRan' = [handlerRan EXCEPT ![r] = TRUE]
    /\ Finish(r, InternalError("route failed"))
    /\ UNCHANGED <<verified, NONCES, body, nonce, parsedBody, reads, writes,
                   replayOf, nonceResp, jwt>>

\* handleNonce that stores the nonce it read, creating the record on a read
HandleNonceCreatesRecord(publicKey) ==
    /\ nonceResp' =
           IF publicKey = "" THEN RespondError(400, "Missing publicKey")
           ELSE [status |-> 200, publicKey |-> publicKey,
                 nonce |-> GetNonce(NONCES, publicKey)]
    /\ NONCES' =
           IF publicKey = "" THEN NONCES
           ELSE SetNonce(NONCES, publicKey, GetNonce(NONCES, publicKey))
    /\ UNCHANGED <<verified, pc, body, nonce, parsedBody, response, reads,
                   writes, handlerRan, replayOf, jwt>>

(***************************************************************************)
(* GET /nonce/:publicKey.                                                  *)
(***************************************************************************)
HandleNonce(publicKey) ==
    /\ nonceResp' =
           IF publicKey = "" THEN RespondError(400, "Missing publicKey")
           ELSE [status |-> 200, publicKey |-> publicKey,
                 nonce |-> GetNonce(NONCES, publicKey)]
    /\ UNCHANGED <<verified, NONCES, pc, body, nonce, parsedBody, response, reads,
                   writes, handlerRan, replayOf, jwt>>

\* NONCES.get throws in handleNonce: nothing catches it before fetch, which
\* answers 500
HandleNonceFails(publicKey) ==
    /\ publicKey # ""
    /\ nonceResp' = InternalError("KV GET failed")
    /\ UNCHANGED <<verified, NONCES, pc, body, nonce, parsedBody, response, reads,
                   writes, handlerRan, replayOf, jwt>>

Next ==
    \/ \E r \in Requests : Receive(r)
    \/ \E r \in Requests : AuthParse(r)
    \/ \E r \in Requests : ValidateNonce(r)
    \/ \E r \in Requests : GetNonceFails(r)
    \/ \E r \in Requests : ValidateSignature(r)
    \/ \E r \in Requests : IncrementNonce(r)
    \/ \E r \in Requests : SetNonceFails(r)
    \/ \E r \in Requests : HandlePing(r)
    \/ \E r \in Requests : RouteFails(r)

Spec == Init /\ [][Next]_vars

(***************************************************************************)
(* Requests of every kind for one key, with every started request going    *)
(* on: each await of the middleware and of the route returns or throws in  *)
(* the end.  That a request arrives at all is not required.                *)
(***************************************************************************)
\* one key's signed and forged bodies, and one body of each other kind
LiveBodies ==
    {b \in SignedBodies \cup ForgedBodies : b.publicKey = "k1"}
        \cup BadKeyBodies
        \cup {b \in MalformedBodies : "signature" \notin b.present}
        \cup {UnparsableBody}

ReceiveLive(r) == \E b \in LiveBodies : Arrive(r, b)

InitLive ==
    /\ NONCES = EmptyStore
    /\ InitRequests(MaxLiveReq)
    /\ InitRegisters(0)

NextLive ==
    \/ \E r \in Requests : ReceiveLive(r)
    \/ \E r \in Requests : AuthParse(r)
    \/ \E r \in Requests : ValidateNonce(r)
    \/ \E r \in Requests : GetNonceFails(r)
    \/ \E r \in Requests : ValidateSignature(r)
    \/ \E r \in Requests : IncrementNonce(r)
    \/ \E r \in Requests : SetNonceFails(r)
    \/ \E r \in Requests : HandlePing(r)
    \/ \E r \in Requests : RouteFails(r)

Step(r) ==
    \/ AuthParse(r)
    \/ ValidateNonce(r)
    \/ GetNonceFails(r)
    \/ ValidateSignature(r)
    \/ IncrementNonce(r)
    \/ SetNonceFails(r)
    \/ HandlePing(r)
    \/ RouteFails(r)

SpecLive ==
    /\ InitLive
    /\ [][NextLive]_vars
    /\ \A r \in 1..MaxLiveReq : WF_vars(Step(r))

(***************************************************************************)
(* Signed requests only, for one public key: the client of that key (or    *)
(* whoever captured its requests) sends correctly signed bodies, several   *)
(* of them at once.                                                        *)
(***************************************************************************)
InitSigned ==
    /\ NONCES = EmptyStore
    /\ InitRequests(MaxSignedReq)
    /\ InitRegisters(0)

NextSigned ==
    \/ \E r \in Requests : ReceiveSigned(r)
    \/ \E r \in Requests : AuthParse(r)
    \/ \E r \in Requests : ValidateNonce(r)
    \/ \E r \in Requests : GetNonceFails(r)
    \/ \E r \in Requests : ValidateSignature(r)
    \/ \E r \in Requests : IncrementNonce(r)
    \/ \E r \in Requests : SetNonceFails(r)
    \/ \E r \in Requests : HandlePing(r)
    \/ \E r \in Requests : RouteFails(r)

SpecSigned == InitSigned /\ [][NextSigned]_vars

(***************************************************************************)
(* Nonce queries against a KV namespace that holds an arbitrary string     *)
(* under k1: getNonce on every stored value, written by setNonce or not.   *)
(***************************************************************************)
InitStored ==
    /\ NONCES \in {EmptyStore} \cup {[k \in {"k1"} |-> s] : s \in StoredStrings}
    /\ InitRequests(0)
    /\ InitRegisters(0)

NextStored == \E publicKey \in Keys \cup {""} : HandleNonce(publicKey)

SpecStored == InitStored /\ [][NextStored]_vars

(***************************************************************************)
(* Nonce queries next to protected requests: the holders of the two keys   *)
(* send signed requests while anybody asks for nonces.                     *)
(***************************************************************************)
InitQuery ==
    /\ NONCES = EmptyStore
    /\ InitRequests(MaxQueryReq)
    /\ InitRegisters(0)

NextQuery ==
    \/ \E r \in Requests : ReceiveKeySigned(r)
    \/ \E r \in Requests : AuthParse(r)
    \/ \E r \in Requests : ValidateNonce(r)
    \/ \E r \in Requests : GetNonceFails(r)
    \/ \E r \in Requests : ValidateSignature(r)
    \/ \E r \in Requests : IncrementNonce(r)
    \/ \E r \in Requests : SetNonceFails(r)
    \/ \E r \in Requests : HandlePing(r)
    \/ \E r \in Requests : RouteFails(r)
    \/ \E publicKey \in Keys \cup {""} : HandleNonce(publicKey)
    \/ \E publicKey \in Keys : HandleNonceFails(publicKey)

SpecQuery == InitQuery /\ [][NextQuery]_vars

(***************************************************************************)
(* The JWT/password variant: POST /register.  Accounts are kept in the KV  *)
(* namespace AUTH under 'account:' + username, the signing key under       *)
(* 'jwk-key'.                                                              *)
(***************************************************************************)
Usernames == {"alice", "bob"}

Passwords == {"pw1", "pw2"}

\* what crypto.getRandomValues may give
Salts == {"5a", "c3"}

\* what jose.generateSecret may give
Secrets == {"secretA", "secretB"}

ACCOUNT_KEY_PREFIX == "account:"

JWK_KEY == "jwk-key"

Registers == DOMAIN regPc

RegisterBodies ==
    {[parses |-> TRUE, present |-> {"username", "password"},
      username |-> u, password |-> p] : u \in Usernames, p \in Passwords}
        \cup {[parses |-> TRUE, present |-> {"username"},
               username |-> "alice", password |-> ""]}
        \cup {UnparsableRegisterBody}

\* getAccount: AUTH.get(ACCOUNT_KEY_PREFIX + username, 'json'); null is {}
GetAccount(kv, username) ==
    IF ACCOUNT_KEY_PREFIX \o username \in DOMAIN kv
    THEN {kv[ACCOUNT_KEY_PREFIX \o username]}
    ELSE {}

\* AUTH.put(key, JSON.stringify(value))
Put(kv, key, value) ==
    [k \in DOMAIN kv \cup {key} |-> IF k = key THEN value ELSE kv[k]]

\* setAccount
SetAccount(kv, username, account) ==
    Put(kv, ACCOUNT_KEY_PREFIX \o username, account)

\* computeHashWithSalt: the SHA-256 digest of password + salt
ComputeHashWithSalt(password, salt) == [sha256 |-> password \o salt]

\* getSignedJwtForUsername: the token for username signed with key
SignedJwt(username, key) == [username |-> username, key |-> key]

\* the response fetch builds from the record handleRegister returns
RegisterError(status, error) ==
    [status |-> status, error |-> error, token |-> {}]

RegisterToken(token) == [status |-> 200, error |-> "", token |-> {token}]

RegisterFinish(g, resp) ==
    /\ regPc' = [regPc EXCEPT ![g] = "done"]
    /\ regResponse' = [regResponse EXCEPT ![g] = resp]

\* a POST /register arrives
RegisterArrive(g) ==
    /\ regPc[g] = "idle"
    /\ \A h \in Registers : h < g => regPc[h] # "idle"
    /\ \E b \in RegisterBodies : regBody' = [regBody EXCEPT ![g] = b]
    /\ regPc' = [regPc EXCEPT ![g] = "received"]
    /\ UNCHANGED <<AUTH, regResponse, stores, gate>>

\* handleRegister: request.json() and the check for username and password
RegisterParse(g) ==
    /\ regPc[g] = "received"
    /\ IF ~regBody[g].parses
       THEN RegisterFinish(g, RegisterError(500, "Internal server error"))
       ELSE IF ~({"username", "password"} \subseteq regBody[g].present)
       THEN RegisterFinish(g, RegisterError(400, "Bad request"))
       ELSE regPc' = [regPc EXCEPT ![g] = "parsed"]
            /\ UNCHANGED regResponse
    /\ UNCHANGED <<AUTH, regBody, stores, gate>>

\* handleRegister: getAccount returns
RegisterGetAccount(g) ==
    /\ regPc[g] = "parsed"
    /\ IF GetAccount(AUTH, regBody[g].username) # {}
       THEN RegisterFinish(g, RegisterError(200, "Username taken."))
       ELSE regPc' = [regPc EXCEPT ![g] = "free"]
            /\ UNCHANGED regResponse
    /\ UNCHANGED <<AUTH, regBody, stores, gate>>

\* handleRegister: the salt is drawn, the hash computed, setAccount returns
RegisterSetAccount(g) ==
    /\ regPc[g] = "free"
    /\ \E salt \in Salts :
           AUTH' = SetAccount(AUTH, regBody[g].username,
                              [salt |-> salt,
                               hash |-> ComputeHashWithSalt(
                                            regBody[g].password, salt)])
    /\ stores' = [stores EXCEPT ![g] = @ + 1]
    /\ regPc' = [regPc EXCEPT ![g] = "stored"]
    /\ UNCHANGED <<regBody, regResponse, gate>>

\* getJwkKey: AUTH.get(JWK_KEY) returns; a key found signs the token
RegisterGetJwk(g) ==
    /\ regPc[g] = "stored"
    /\ IF JWK_KEY \in DOMAIN AUTH
       THEN RegisterFinish(g, RegisterToken(
                SignedJwt(regBody[g].username, AUTH[JWK_KEY])))
       ELSE regPc' = [regPc EXCEPT ![g] = "noJwk"]
            /\ UNCHANGED regResponse
    /\ UNCHANGED <<AUTH, regBody, stores, gate>>

\* getJwkKey: a new key is generated and stored, and signs the token
RegisterPutJwk(g) ==
    /\ regPc[g] = "noJwk"
    /\ \E secret \in Secrets :
           /\ AUTH' = Put(AUTH, JWK_KEY, secret)
           /\ RegisterFinish(g, RegisterToken(
                  SignedJwt(regBody[g].username, secret)))
    /\ UNCHANGED <<regBody, stores, gate>>

\* an AUTH.get or AUTH.put throws: fetch's catch answers 500
RegisterFails(g) ==
    /\ regPc[g] \in {"parsed", "free", "stored", "noJwk"}
    /\ RegisterFinish(g, RegisterError(500, "Internal server error"))
    /\ UNCHANGED <<AUTH, regBody, stores, gate>>

InitRegister ==
    /\ NONCES = EmptyStore
    /\ InitRequests(0)
    /\ InitRegisters(MaxReg)

NextRegister ==
    \/ \E g \in Registers : RegisterArrive(g)
    \/ \E g \in Registers : RegisterParse(g)
    \/ \E g \in Registers : RegisterGetAccount(g)
    \/ \E g \in Registers : RegisterSetAccount(g)
    \/ \E g \in Registers : RegisterGetJwk(g)
    \/ \E g \in Registers : RegisterPutJwk(g)
    \/ \E g \in Registers : RegisterFails(g)

SpecRegister == InitRegister /\ [][NextRegister]_vars

(***************************************************************************)
(* Properties.                                                             *)
(***************************************************************************)
\* the request passed authMiddleware: the route handler may run for it
Authorized(r) == pc[r] = "authorized" \/ handlerRan[r]

\* the request was answered with this response
Answered(r, resp) == pc[r] = "done" /\ response[r] = resp

InvalidNonce == RespondError(401, "Unauthorized. Invalid nonce.")

InvalidSignature == RespondError(401, "Unauthorized. Invalid signature.")

InvalidBody == RespondError(400, "Invalid body")

\* the nonce getNonce finds for a key
Stored(k) == GetNonce(NONCES, k)

\* C1: replay defense: of the requests that carry the same public key and
\* the same nonce, at most one is ever authorized.
C1_AtMostOneAuthorized ==
    \A r \in Requests : \A q \in Requests :
        (/\ r # q
         /\ Authorized(r)
         /\ Authorized(q)
         /\ body[r].publicKey = body[q].publicKey)
            => body[r].nonce # body[q].nonce

\* C2: monotonicity: no step lowers the nonce stored for a public key.
C2_NonceNeverDecreases ==
    [][\A k \in Keys : GetNonce(NONCES', k) >= GetNonce(NONCES, k)]_vars

\* C3: the setNonce write of an authorized request leaves the stored nonce
\* of its key one above what was stored just before the write.
C3_WriteAddsOne ==
    [][\A r \in Requests :
          writes'[r] = writes[r] + 1 =>
              GetNonce(NONCES', body[r].publicKey)
                  = GetNonce(NONCES, body[r].publicKey) + 1]_vars

\* C4: a request that repeats an authorized request already answered is
\* never authorized, and the answer it gets from the middleware's checks
\* is 401 'Unauthorized. Invalid nonce.', never 'Invalid signature'.
C4_ReplayRejected ==
    \A r \in Requests :
        replayOf[r] # {} =>
            /\ ~Authorized(r)
            /\ pc[r] = "done" /\ response[r].status # 500
                   => response[r] = InvalidNonce

\* the route handler of the request ran and failed
RouteFailed(r) == Answered(r, InternalError("route failed"))

\* C10: after the route of an authorized request failed, the nonce stored
\* for its key stays above the nonce of the request, and a request that
\* repeats it is not authorized.
C10_FailedRouteKeepsIncrement ==
    \A q \in Requests :
        RouteFailed(q) =>
            /\ Stored(body[q].publicKey) > body[q].nonce
            /\ \A r \in Requests : q \in replayOf[r] => ~Authorized(r)

\* the responses authMiddleware returns itself
Rejections == {InvalidBody, InvalidNonce, InvalidSignature}

\* the 500s fetch answers when authMiddleware raises
Raised ==
    {InternalError("SyntaxError"), InternalError("KV GET failed"),
     InternalError("KV PUT failed")}

Rejected(r) == pc[r] = "done" /\ response[r] \in Rejections

\* C5: a request rejected with 400 or 401 has written nothing to the nonce
\* store.
C5_NoWriteOnRejection == \A r \in Requests : Rejected(r) => writes[r] = 0

\* two requests were rejected, one for its signature and one for its nonce
C5_Witness ==
    \E r \in Requests : \E q \in Requests :
        /\ Answered(r, InvalidSignature)
        /\ Answered(q, InvalidNonce)
        /\ reads[r] = 1

\* C6: a request writes the nonce store at most once, only after
\* verifySignature returned true for it, and before its route handler
\* starts.
C6_WriteOrder ==
    \A r \in Requests :
        /\ writes[r] <= 1
        /\ writes[r] = 1 => verified[r]
        /\ handlerRan[r] => writes[r] = 1

\* a request went through the write and its handler has run
C6_Witness ==
    \E r \in Requests : handlerRan[r] /\ writes[r] = 1 /\ verified[r]

\* C7: the route handler runs only for an authorized request.  A request
\* the middleware answered 400 or 401, or for which it raised, never has
\* its handler run nor request.parsedBody set; a request whose handler ran
\* has as parsedBody its own body, whose nonce is the one getNonce
\* returned and whose signature verifies.
C7_HandlerOnlyWhenAuthorized ==
    \A r \in Requests :
        /\ pc[r] = "done" /\ response[r] \in Rejections \cup Raised
               => ~handlerRan[r] /\ parsedBody[r] = {}
        /\ handlerRan[r]
               => /\ parsedBody[r] = {body[r]}
                  /\ reads[r] = 1
                  /\ nonce[r] = body[r].nonce
                  /\ VerifySignature(body[r])

\* one request had its handler run while another was turned away
C7_Witness ==
    \E r \in Requests : \E q \in Requests :
        /\ handlerRan[r]
        /\ parsedBody[r] = {body[r]}
        /\ pc[q] = "done"
        /\ response[q] \in Rejections \cup Raised

\* the parsed body lacks a required field
LacksField(b) == b.parses /\ \E f \in Fields : f \notin b.present

\* C8: a request whose parsed body lacks 'signature' or one of the
\* data.auth fields never reads or writes the nonce store and is answered
\* 400 'Invalid body'.
C8_StructureBeforeStorage ==
    \A r \in Requests :
        pc[r] # "idle" /\ LacksField(body[r]) =>
            /\ reads[r] = 0
            /\ writes[r] = 0
            /\ pc[r] \in {"received", "done"}
            /\ pc[r] = "done" => response[r] = InvalidBody

\* a body without data.auth.publicKey was answered 400 after another
\* request had gone to the store
C8_Witness ==
    \E r \in Requests : \E q \in Requests :
        /\ Answered(r, InvalidBody)
        /\ "publicKey" \notin body[r].present
        /\ reads[q] = 1

\* the string is a non-negative integer: decimal digits and nothing else
IsNonNegInteger(s) == s # <<>> /\ \A i \in 1..Len(s) : IsDigit(s[i], 10)

\* C9 as stated: a nonce query answers 0 for a key without a stored value
\* and for a stored value that is no non-negative integer, and the stored
\* integer otherwise.
C9_MalformedStoredIsZero ==
    nonceResp.status = 200 =>
        LET k == nonceResp.publicKey
        IN  IF k \notin DOMAIN NONCES THEN nonceResp.nonce = 0
            ELSE IF IsNonNegInteger(NONCES[k])
            THEN nonceResp.nonce = DigitsValue(NONCES[k], 10)
            ELSE nonceResp.nonce = 0

\* the value of a digit, by table
TableValue(c) ==
    CASE c = "0" -> 0 [] c = "1" -> 1 [] c = "2" -> 2 [] c = "3" -> 3
      [] c = "4" -> 4 [] c = "5" -> 5 [] c = "6" -> 6 [] c = "7" -> 7
      [] c = "8" -> 8 [] c = "9" -> 9 [] c = "a" -> 10 [] c = "b" -> 11
      [] c = "c" -> 12 [] c = "d" -> 13 [] c = "e" -> 14 [] c = "f" -> 15
      [] OTHER -> 99

RECURSIVE Pow(_, _)
Pow(b, e) == IF e = 0 THEN 1 ELSE b * Pow(b, e - 1)

\* the positional value of s[from + 1 .. to] in a radix
RECURSIVE PositionalValue(_, _, _, _)
PositionalValue(s, from, to, radix) ==
    IF from >= to THEN 0
    ELSE TableValue(s[from + 1]) * Pow(radix, to - from - 1)
         + PositionalValue(s, from + 1, to, radix)

\* The integer a string leads with: after leading spaces and an optional
\* sign, the longest run of decimal digits, or of hexadecimal digits behind
\* a 0x; 0 when that run is empty.
LeadingInteger(s) ==
    LET n     == Len(s)
        sp    == CHOOSE i \in 0..n :
                     /\ \A p \in 1..i : s[p] = " "
                     /\ i = n \/ s[i + 1] # " "
        signd == sp < n /\ s[sp + 1] \in {"-", "+"}
        neg   == sp < n /\ s[sp + 1] = "-"
        j     == IF signd THEN sp + 1 ELSE sp
        hex   == j + 2 <= n /\ s[j + 1] = "0" /\ s[j + 2] \in {"x", "X"}
        radix == IF hex THEN 16 ELSE 10
        from  == IF hex THEN j + 2 ELSE j
        to    == CHOOSE e \in from..n :
                     /\ \A p \in (from + 1)..e : TableValue(s[p]) < radix
                     /\ e = n \/ TableValue(s[e + 1]) >= radix
        value == PositionalValue(s, from, to, radix)
    IN  IF neg THEN 0 - value ELSE value

\* C9, amended: a nonce query answers 0 for a key without a stored value,
\* and otherwise the integer the stored string leads with (0 when it leads
\* with none): "-1" gives -1 and "1x" gives 1.
C9_GetNonceReadsLeadingInteger ==
    nonceResp.status = 200 =>
        LET k == nonceResp.publicKey
        IN  IF k \notin DOMAIN NONCES THEN nonceResp.nonce = 0
            ELSE nonceResp.nonce = LeadingInteger(NONCES[k])

\* a query found "-1" stored and answered -1
C9_Witness ==
    /\ nonceResp.status = 200
    /\ nonceResp.publicKey \in DOMAIN NONCES
    /\ NONCES[nonceResp.publicKey] = <<"-", "1">>
    /\ nonceResp.nonce = 0 - 1

\* C11: a nonce query needs no signature and changes nothing in the nonce
\* store; it answers 400 without a publicKey and otherwise 200 with the
\* nonce stored for the key, 0 while no request of that key has written.
C11_QueryReadsOnly ==
    [][nonceResp' # nonceResp =>
          /\ NONCES' = NONCES
          /\ nonceResp'.status \in {200, 400, 500}
          /\ nonceResp'.status = 200 =>
                 LET k == nonceResp'.publicKey
                 IN  /\ k \in Keys
                     /\ k \notin DOMAIN NONCES => nonceResp'.nonce = 0
                     /\ k \in DOMAIN NONCES =>
                            ToString(nonceResp'.nonce) = NONCES[k]
                     /\ (\A r \in Requests :
                            body[r].publicKey = k => writes[r] = 0)
                            => nonceResp'.nonce = 0]_vars

\* a query answered 1 for a key after a request of that key was authorized
C11_Witness ==
    /\ nonceResp.status = 200
    /\ nonceResp.nonce = 1
    /\ NONCES = SetNonce(EmptyStore, nonceResp.publicKey, 1)

\* the request had a well-formed body and ended without its NONCES.get
\* having returned
GetFailed(r) ==
    /\ pc[r] = "done"
    /\ body[r].parses
    /\ Fields \subseteq body[r].present
    /\ reads[r] = 0

\* the request passed the signature check and ended without its NONCES.put
\* having returned
PutFailed(r) == pc[r] = "done" /\ verified[r] /\ writes[r] = 0

\* C12: a protected request whose NONCES.get or NONCES.put failed is
\* answered 500 without its handler having run, a nonce query whose
\* NONCES.get failed is answered 500, and the step that ends such a request
\* leaves the store as it was.
C12_StorageFailure ==
    /\ [](\A r \in Requests :
             GetFailed(r) \/ PutFailed(r) =>
                 /\ response[r].status = 500
                 /\ ~handlerRan[r]
                 /\ parsedBody[r] = {})
    /\ []("error" \in DOMAIN nonceResp /\ nonceResp.error = "KV GET failed"
              => nonceResp.status = 500)
    /\ [][(\/ \E r \in Requests :
                 pc[r] # "done" /\ (GetFailed(r)' \/ PutFailed(r)')
           \/ nonceResp'.status = 500 /\ nonceResp' # nonceResp)
              => NONCES' = NONCES]_vars

\* a NONCES.put failed for one request and a NONCES.get for another
C12_Witness ==
    \E r \in Requests : \E q \in Requests :
        /\ PutFailed(r)
        /\ GetFailed(q)
        /\ response[r].status = 500
        /\ response[q].status = 500

\* C13: the step in which a request's NONCES.get returns a nonce that
\* differs from the nonce of its body ends the request with 401 'Invalid
\* nonce' and leaves the store alone; a request so answered never had its
\* signature verified and wrote nothing, whatever its signature.
C13_NonceCheckFirst ==
    /\ [][\A r \in Requests :
              (/\ reads'[r] # reads[r]
               /\ Stored(body[r].publicKey) # body[r].nonce)
                  => /\ pc'[r] = "done"
                     /\ response'[r] = InvalidNonce
                     /\ NONCES' = NONCES]_vars
    /\ [](\A r \in Requests :
             reads[r] > 0 /\ nonce[r] # body[r].nonce =>
                 /\ pc[r] = "done"
                 /\ response[r] = InvalidNonce
                 /\ ~verified[r]
                 /\ writes[r] = 0)

\* a correctly signed request was turned away for a nonce below the stored
\* one, which an earlier request had raised
C13_Witness ==
    \E r \in Requests :
        /\ Answered(r, InvalidNonce)
        /\ body[r] \in SignedBodies
        /\ body[r].nonce < nonce[r]
        /\ Stored(body[r].publicKey) = nonce[r]

\* the signature of the body is not the key holder's over the body's data,
\* or no address can be derived from the body's publicKey
BadSignature(b) ==
    \/ b.signature # Sign(b.publicKey, Data(b.publicKey, b.nonce))
    \/ DerivationThrows(b.publicKey)

\* C14: a well-formed request whose nonce matched and whose signature does
\* not verify, or whose address derivation throws, is answered 401
\* 'Invalid signature' once verifySignature has returned: it is never
\* answered 500 and never authorized, and the step that answers it leaves
\* the store alone.
C14_SignatureFailure ==
    /\ [](\A r \in Requests :
             (/\ reads[r] > 0
              /\ nonce[r] = body[r].nonce
              /\ BadSignature(body[r]))
                 => \/ pc[r] = "nonceChecked"
                    \/ /\ Answered(r, InvalidSignature)
                       /\ ~verified[r]
                       /\ writes[r] = 0
                       /\ parsedBody[r] = {}
                       /\ ~handlerRan[r])
    /\ [][\A r \in Requests :
              pc[r] = "nonceChecked" /\ BadSignature(body[r])
                  /\ pc'[r] # pc[r]
                  => NONCES' = NONCES /\ response'[r] = InvalidSignature]_vars

\* one request was turned away because no address could be derived from
\* its publicKey, another because its signature was made with another key
C14_Witness ==
    \E r \in Requests : \E q \in Requests :
        /\ Answered(r, InvalidSignature)
        /\ DerivationThrows(body[r].publicKey)
        /\ Answered(q, InvalidSignature)
        /\ body[q] \in ForgedBodies

\* C15: a protected request whose body is absent or is no JSON is answered
\* 400 and has neither read nor written the nonce store.
C15_UnparsableIs400 ==
    \A r \in Requests :
        pc[r] = "done" /\ ~body[r].parses =>
            /\ response[r].status = 400
            /\ reads[r] = 0
            /\ writes[r] = 0

\* the order in which a request passes through the middleware
Stages ==
    <<"idle", "received", "validated", "nonceChecked", "sigVerified",
      "authorized", "done">>

Rank(p) == CHOOSE i \in 1..Len(Stages) : Stages[i] = p

\* C16: every protected request that has arrived ends up authorized or
\* answered with an error; it reads the nonce at most once and writes it at
\* most once, moves only forward through the middleware, and once answered
\* keeps its one outcome: either it was authorized, having written once, or
\* it was turned away with 400, 401 or 500 before any write.
C16_Terminates ==
    /\ \A r \in 1..MaxLiveReq :
           pc[r] = "received" ~> (pc[r] = "authorized" \/ pc[r] = "done")
    /\ [](\A r \in Requests :
             /\ reads[r] <= 1
             /\ writes[r] <= 1
             /\ pc[r] = "done" =>
                    \/ parsedBody[r] # {} /\ writes[r] = 1 /\ handlerRan[r]
                    \/ /\ parsedBody[r] = {}
                       /\ writes[r] = 0
                       /\ ~handlerRan[r]
                       /\ response[r].status \in {400, 401, 500})
    /\ [][\A r \in Requests :
              /\ pc'[r] # pc[r] => Rank(pc'[r]) > Rank(pc[r])
              /\ pc[r] = "done" => response'[r] = response[r]]_vars

\* one request was authorized and answered, another was turned away
C16_Witness ==
    \E r \in Requests : \E q \in Requests :
        /\ pc[r] = "done"
        /\ handlerRan[r]
        /\ reads[r] = 1
        /\ writes[r] = 1
        /\ pc[q] = "done"
        /\ response[q].status = 401

\* the requests for key k whose NONCES.put has returned
Written(k) == {r \in Requests : body[r].publicKey = k /\ writes[r] > 0}

\* C17: counting invariant: the stored nonce of every public key equals the
\* number of requests for that key whose nonce write has completed.
C17_StoredCountsWrites ==
    \A k \in Keys : Stored(k) = Cardinality(Written(k))

\* the store with only the entries of the keys ks
Restrict(kv, ks) == [k \in DOMAIN kv \cap ks |-> kv[k]]

\* the entry of key k is the same in both stores
SameEntry(kv1, kv2, k) ==
    /\ k \in DOMAIN kv1 <=> k \in DOMAIN kv2
    /\ k \in DOMAIN kv1 => kv1[k] = kv2[k]

\* C18: per-key isolation: a step of a protected request leaves the store
\* entry of every key but its own as it was, and the nonce it reads is what
\* the entry of its own key alone gives; a nonce query changes no entry and
\* answers from the entry of its own key alone; and what is stored for a
\* key was written by a request for that key.
C18_KeyIsolation ==
    /\ [][/\ \A r \in Requests :
                pc'[r] # pc[r] =>
                    /\ \A k \in Keys \ {body'[r].publicKey} :
                           SameEntry(NONCES', NONCES, k)
                    /\ reads'[r] # reads[r] =>
                           nonce'[r] =
                               GetNonce(Restrict(NONCES, {body[r].publicKey}),
                                        body[r].publicKey)
          /\ nonceResp' # nonceResp =>
                /\ NONCES' = NONCES
                /\ nonceResp'.status = 200 =>
                       nonceResp'.nonce =
                           GetNonce(Restrict(NONCES, {nonceResp'.publicKey}),
                                    nonceResp'.publicKey)]_vars
    /\ [](\A k \in Keys :
             k \in DOMAIN NONCES =>
                 \E r \in Requests :
                     /\ body[r].publicKey = k
                     /\ writes[r] > 0
                     /\ NONCES[k] = ToString(nonce[r] + 1))

\* requests for two keys were both authorized, each having raised the
\* nonce of its own key
C18_Witness ==
    \E r \in Requests : \E q \in Requests :
        /\ body[r].publicKey = "k1"
        /\ body[q].publicKey = "k2"
        /\ handlerRan[r]
        /\ handlerRan[q]
        /\ Stored("k1") = 1
        /\ Stored("k2") = 1

\* the handleRegister calls for username u that were answered with a token
Tokens(u) ==
    {g \in Registers : regBody[g].username = u /\ regResponse[g].token # {}}

\* the handleRegister calls for username u whose setAccount has returned
AccountWriters(u) ==
    {g \in Registers : regBody[g].username = u /\ stores[g] > 0}

\* C19: registration never overwrites an account: for every username at
\* most one handleRegister call stores an account and at most one is
\* answered with a token.
C19_RegisterNeverOverwrites ==
    \A u \in Usernames :
        /\ Cardinality(AccountWriters(u)) <= 1
        /\ Cardinality(Tokens(u)) <= 1

====
